---------------------------- MODULE Spec2Model ----------------------------
(***************************************************************************)
(* scripts/load_pathways.py of biochem-moa-agent: the command line of the  *)
(* pathway loader (main) and the PathwayLoader class it drives.            *)
(*                                                                         *)
(* One run of main is a sequential program; pc is its position.  Every     *)
(* call main makes on PathwayLoader is two steps, the call and the return, *)
(* and both are recorded in trace.                                         *)
(*                                                                         *)
(*   Spec        main with PathwayLoader as it is written (every method    *)
(*               body is pass).                                            *)
(*   SpecOpen    the same main, the results of the PathwayLoader calls     *)
(*               left open (any return value, or an exception): what main  *)
(*               itself guarantees whatever the loader does.               *)
(*   SpecClient  PathwayLoader as written, driven by a client that calls   *)
(*               its methods in any order with any arguments.              *)
(*   SpecImport  the modules of the repository as Python imports them:     *)
(*               sys_modules is sys.modules, frames the stack of imports   *)
(*               and module bodies in progress.                            *)
(***************************************************************************)
EXTENDS Integers, Sequences, FiniteSets, TLC

VARIABLES argv, environ, pc, args, neo4j, loader, db, count, total_loaded,
          stats, exception, trace, summary, sys_modules, frames

vars == <<argv, environ, pc, args, neo4j, loader, db, count, total_loaded,
          stats, exception, trace, summary, sys_modules, frames>>

---------------------------------------------------------------------------
(* Bounds of the model. *)

\* --limit tokens on the command line are the decimal numerals 0..MaxLimit.
MaxLimit == 1
\* An open loader call returns a count in 0..MaxLoaded.
MaxLoaded == 2
\* The client of SpecClient makes at most MaxCalls calls.
MaxCalls == 3
\* The importer of SpecImport executes at most MaxImports import statements.
MaxImports == 2

---------------------------------------------------------------------------
(* Python values.  A value that may be None is a tagged record, so that    *)
(* None, an int and a dict can be told apart.                              *)

None == [t |-> "NoneType"]
PyInt(n) == [t |-> "int", v |-> n]
EmptyDict == [t |-> "dict"]
\* A local name of main that has not been assigned yet.
Unbound == [t |-> "unbound"]
NoException == "none"

IsInt(x) == x.t = "int"

\* How a call ends: it returns a value or raises.
Return(v) == [k |-> "return", value |-> v]
Raise(e) == [k |-> "raise", exc |-> e]

\* a + b of Python, for the values of the model: int + int is the sum,
\* anything else with None raises TypeError.
PyAdd(a, b) ==
    IF IsInt(a) /\ IsInt(b) THEN Return(PyInt(a.v + b.v)) ELSE Raise("TypeError")

---------------------------------------------------------------------------
(* The command line and the environment. *)

ValueOptions == {"--source", "--organism", "--limit"}
source_choices == {"kegg", "reactome", "wiki", "all"}

\* The tokens a run may give each option: every accepted one and one that
\* the parser rejects ("biocyc" is no choice, "many" is no integer).
Tokens(o) ==
    CASE o = "--source" -> source_choices \cup {"biocyc"}
      [] o = "--organism" -> {"human", "mouse"}
      [] o = "--limit" -> {ToString(n) : n \in 0..MaxLimit} \cup {"many"}

AllTokens == UNION {Tokens(o) : o \in ValueOptions}

\* A command line: the options given with their tokens, and the flags given.
ArgvSet ==
    {a \in [opts : UNION {[S -> AllTokens] : S \in SUBSET ValueOptions},
            flags : SUBSET {"--update"}] :
        \A o \in DOMAIN a.opts : a.opts[o] \in Tokens(o)}

EnvNames == {"NEO4J_URI", "NEO4J_USER", "NEO4J_PASSWORD"}
EnvValues(n) ==
    CASE n = "NEO4J_URI" -> {"bolt://db:7687"}
      [] n = "NEO4J_USER" -> {"admin"}
      [] n = "NEO4J_PASSWORD" -> {""}
AllEnvValues == UNION {EnvValues(n) : n \in EnvNames}

\* os.environ: each of the three variables is set or not.
EnvironSet ==
    {e \in UNION {[S -> AllEnvValues] : S \in SUBSET EnvNames} :
        \A n \in DOMAIN e : e[n] \in EnvValues(n)}

\* os.getenv(name, default)
getenv(e, name, default) == IF name \in DOMAIN e THEN e[name] ELSE default

\* int(token) of argparse's type=int: the number a decimal numeral writes,
\* ValueError for anything else.
int(tok) ==
    IF \E n \in 0..(MaxLimit + 1) : ToString(n) = tok
    THEN PyInt(CHOOSE n \in 0..(MaxLimit + 1) : ToString(n) = tok)
    ELSE [t |-> "ValueError"]

ParseError == [t |-> "error"]

\* parse_args without choices= on --source: any token is taken as a source.
parse_args_any_source(a) ==
    LET source == IF "--source" \in DOMAIN a.opts THEN a.opts["--source"] ELSE "all"
        organism == IF "--organism" \in DOMAIN a.opts
                    THEN a.opts["--organism"] ELSE "human"
        limit == IF "--limit" \in DOMAIN a.opts THEN int(a.opts["--limit"]) ELSE None
        update == "--update" \in a.flags
    IN  IF limit.t = "ValueError"
        THEN ParseError
        ELSE [t |-> "Namespace", source |-> source, organism |-> organism,
              limit |-> limit, update |-> update]

\* parser.parse_args(): the Namespace, or ParseError when the parser calls
\* parser.error() (which exits with status 2).
parse_args(a) ==
    LET source == IF "--source" \in DOMAIN a.opts THEN a.opts["--source"] ELSE "all"
        organism == IF "--organism" \in DOMAIN a.opts
                    THEN a.opts["--organism"] ELSE "human"
        limit == IF "--limit" \in DOMAIN a.opts THEN int(a.opts["--limit"]) ELSE None
        update == "--update" \in a.flags
    IN  IF source \notin source_choices \/ limit.t = "ValueError"
        THEN ParseError
        ELSE [t |-> "Namespace", source |-> source, organism |-> organism,
              limit |-> limit, update |-> update]

---------------------------------------------------------------------------
(* class PathwayLoader.  A method is given the instance (self), the graph  *)
(* database it is meant to write (database) and its arguments, and yields  *)
(* how the call ends, the instance and the database after it.  Every body  *)
(* in the source is pass: the call returns None and changes nothing.       *)

\* The object Python hands to __init__: no attribute is set yet.
NewInstance == [t |-> "PathwayLoader", attrs |-> <<>>]

Effect(result, self, database) == [result |-> result, self |-> self, db |-> database]

\* An __init__ that keeps the connection URI on the instance.
PathwayLoader_init_storing(self, database, neo4j_uri, neo4j_user, neo4j_password) ==
    Effect(Return(None), [self EXCEPT !.attrs = ("uri" :> neo4j_uri)], database)

PathwayLoader_init(self, database, neo4j_uri, neo4j_user, neo4j_password) ==
    Effect(Return(None), self, database)

\* A KEGG loader that returns a count (nothing was loaded: 0).
load_kegg_pathways_counting(self, database, organism, limit) ==
    Effect(Return(PyInt(0)), self, database)

load_kegg_pathways(self, database, organism, limit) ==
    Effect(Return(None), self, database)

load_reactome_pathways(self, database, species, limit) ==
    Effect(Return(None), self, database)

load_wikipathways(self, database, organism, limit) ==
    Effect(Return(None), self, database)

create_pathway_node(self, database, pathway) ==
    Effect(Return(None), self, database)

create_protein_nodes(self, database, proteins) ==
    Effect(Return(None), self, database)

create_relationships(self, database, pathway) ==
    Effect(Return(None), self, database)

update_indexes(self, database) ==
    Effect(Return(None), self, database)

validate_data(self, database) ==
    Effect(Return(None), self, database)

---------------------------------------------------------------------------
(* The modules of the repository, as the import system sees them.  A       *)
(* module is named by its path (mcp_server.server is <<"mcp_server",       *)
(* "server">>); its body is the sequence of its top-level statements that  *)
(* bind a name or import.  The directory biochem-moa-agent is on sys.path. *)

PyStr(str) == [t |-> "str", s |-> str]
PyList(items) == [t |-> "list", items |-> items]
ModuleObject(path) == [t |-> "module", name |-> path]
\* A class or function object a def or class statement binds.
Defined(kind, name) == [t |-> kind, name |-> name]

\* from <module> import <name>;  import <module>;  <name> = <value>
FromImport(module, name) == [op |-> "from", module |-> module, name |-> name]
ImportStmt(module) == [op |-> "import", module |-> module]
Assign(name, value) == [op |-> "assign", name |-> name, value |-> value]

\* A file whose whole text is its docstring: no statement binds anything.
DocstringOnly == <<>>

\* mcp_server/__init__.py, lines 24-28
mcp_server_init_body ==
    <<FromImport(<<"mcp_server", "server">>, "MCPServer"),
      FromImport(<<"mcp_server", "handlers">>, "DietHandler"),
      Assign("__version__", PyStr("1.0.0")),
      Assign("__all__", PyList(<<"MCPServer", "DietHandler">>))>>

\* scripts/load_pathways.py, lines 55-176: the standard-library imports (each
\* binds its name), the logger, the two classes and main.
load_pathways_body ==
    <<Assign("os", ModuleObject(<<"os">>)),
      Assign("sys", ModuleObject(<<"sys">>)),
      Assign("json", ModuleObject(<<"json">>)),
      Assign("logging", ModuleObject(<<"logging">>)),
      Assign("argparse", ModuleObject(<<"argparse">>)),
      Assign("List", Defined("class", "List")),
      Assign("Dict", Defined("class", "Dict")),
      Assign("Any", Defined("class", "Any")),
      Assign("dataclass", Defined("function", "dataclass")),
      Assign("datetime", Defined("class", "datetime")),
      Assign("logger", Defined("object", "Logger")),
      Assign("PathwayData", Defined("class", "PathwayData")),
      Assign("PathwayLoader", Defined("class", "PathwayLoader")),
      Assign("main", Defined("function", "main"))>>

Package(body) == [kind |-> "package", body |-> body]
\* A directory without __init__.py: a namespace package.
NamespacePackage == [kind |-> "namespace", body |-> <<>>]
Module(body) == [kind |-> "module", body |-> body]

\* The fifteen files of the repository and the directories that hold them.
Files ==
    (<<"mcp_server">> :> Package(mcp_server_init_body))
    @@ (<<"mcp_server", "server">> :> Module(DocstringOnly))
    @@ (<<"mcp_server", "tools">> :> NamespacePackage)
    @@ (<<"mcp_server", "tools", "cypher_tool">> :> Module(DocstringOnly))
    @@ (<<"mcp_server", "tools", "memory_tool">> :> Module(DocstringOnly))
    @@ (<<"mcp_server", "tools", "pathway_tool">> :> Module(DocstringOnly))
    @@ (<<"mcp_server", "tools", "pubchem_tool">> :> Module(DocstringOnly))
    @@ (<<"agents">> :> NamespacePackage)
    @@ (<<"agents", "interaction_mapper">> :> Module(DocstringOnly))
    @@ (<<"agents", "moa_predictor">> :> Module(DocstringOnly))
    @@ (<<"agents", "pathway_analyzer">> :> Module(DocstringOnly))
    @@ (<<"graph">> :> NamespacePackage)
    @@ (<<"graph", "neo4j_client">> :> Module(DocstringOnly))
    @@ (<<"knowledge_base">> :> NamespacePackage)
    @@ (<<"knowledge_base", "kb_manager">> :> Module(DocstringOnly))
    @@ (<<"memory">> :> NamespacePackage)
    @@ (<<"memory", "memory_manager">> :> Module(DocstringOnly))
    @@ (<<"scripts">> :> NamespacePackage)
    @@ (<<"scripts", "load_pathways">> :> Module(load_pathways_body))
    @@ (<<"tests">> :> NamespacePackage)
    @@ (<<"tests", "test_graph_queries">> :> Module(DocstringOnly))
    @@ (<<"tests", "test_mcp_integration">> :> Module(DocstringOnly))

\* The namespace ns with name bound to value.
Bind(ns, name, value) == (name :> value) @@ ns

\* The namespace a body of assignments leaves.
RECURSIVE BoundFrom(_, _)
BoundFrom(ns, body) ==
    IF body = <<>> THEN ns
    ELSE BoundFrom(Bind(ns, Head(body).name, Head(body).value), Tail(body))

Bound(body) == BoundFrom(<<>>, body)

\* a, a.b, a.b.c: the modules importing a.b.c imports, in order.
Prefixes(path) == [i \in 1..Len(path) |-> SubSeq(path, 1, i)]

Parent(path) == SubSeq(path, 1, Len(path) - 1)

---------------------------------------------------------------------------
(* main().  The state of a run as one record, and each step of main as an  *)
(* operator from the record before to the record after.                    *)

State ==
    [argv |-> argv, environ |-> environ, pc |-> pc, args |-> args,
     neo4j |-> neo4j, loader |-> loader, db |-> db, count |-> count,
     total_loaded |-> total_loaded, stats |-> stats, exception |-> exception,
     trace |-> trace, summary |-> summary]

\* The run's state becomes s.
Become(s) ==
    /\ argv' = s.argv
    /\ environ' = s.environ
    /\ pc' = s.pc
    /\ args' = s.args
    /\ neo4j' = s.neo4j
    /\ loader' = s.loader
    /\ db' = s.db
    /\ count' = s.count
    /\ total_loaded' = s.total_loaded
    /\ stats' = s.stats
    /\ exception' = s.exception
    /\ trace' = s.trace
    /\ summary' = s.summary
    /\ UNCHANGED <<sys_modules, frames>>

\* main as it starts with command line a in environment e and database d.
Start(a, e, d) ==
    [argv |-> a, environ |-> e, pc |-> "parse_args", args |-> Unbound,
     neo4j |-> Unbound, loader |-> Unbound, db |-> d, count |-> Unbound,
     total_loaded |-> Unbound, stats |-> Unbound, exception |-> NoException,
     trace |-> <<>>, summary |-> Unbound]

\* An exception nothing in main catches: it leaves main, the run is over.
Uncaught(s, exc) == [s EXCEPT !.pc = "raised", !.exception = exc]

CallEvent(op, kw) == [kind |-> "call", op |-> op, kw |-> kw]
ReturnEvent(op, value) == [kind |-> "return", op |-> op, value |-> value]
RaiseEvent(op, exc) == [kind |-> "raise", op |-> op, exc |-> exc]

\* main calls loader.op(**kw): control is in the method until it ends.
Call(s, op, kw, in_pc) ==
    [s EXCEPT !.trace = Append(@, CallEvent(op, kw)), !.pc = in_pc]

\* The call in progress ends as `out` says; `bound` is the run after a return
\* (the value bound by main, the next position).
EndCall(s, op, out, bound) ==
    IF out.result.k = "raise"
    THEN Uncaught([s EXCEPT !.trace = Append(@, RaiseEvent(op, out.result.exc)),
                            !.db = out.db],
                  out.result.exc)
    ELSE [bound EXCEPT !.trace = Append(@, ReturnEvent(op, out.result.value)),
                       !.db = out.db]

\* The keyword arguments of the call in progress.
InCall(s) == s.trace[Len(s.trace)].kw

\* line 188: args = parser.parse_args()
step_parse_args(s) ==
    LET r == parse_args(s.argv)
    IN  IF r = ParseError
        THEN Uncaught(s, "SystemExit")
        ELSE [s EXCEPT !.args = r, !.pc = "getenv"]

\* The credentials with the password read from the user's variable.
step_getenv_swapped(s) ==
    [s EXCEPT !.neo4j = [uri |-> getenv(s.environ, "NEO4J_URI", "bolt://localhost:7687"),
                         user |-> getenv(s.environ, "NEO4J_USER", "neo4j"),
                         password |-> getenv(s.environ, "NEO4J_USER", "password123")],
              !.pc = "PathwayLoader"]

\* lines 191-193: the credentials, from the environment
step_getenv(s) ==
    [s EXCEPT !.neo4j = [uri |-> getenv(s.environ, "NEO4J_URI", "bolt://localhost:7687"),
                         user |-> getenv(s.environ, "NEO4J_USER", "neo4j"),
                         password |-> getenv(s.environ, "NEO4J_PASSWORD", "password123")],
              !.pc = "PathwayLoader"]

\* line 196: loader = PathwayLoader(neo4j_uri, neo4j_user, neo4j_password)
step_call_init(s) ==
    Call(s, "__init__",
         [neo4j_uri |-> s.neo4j.uri, neo4j_user |-> s.neo4j.user,
          neo4j_password |-> s.neo4j.password],
         "in_init")

step_ret_init(s, out) ==
    EndCall(s, "__init__", out, [s EXCEPT !.loader = out.self, !.pc = "total_loaded"])

\* line 199: total_loaded = 0
step_total_loaded(s) == [s EXCEPT !.total_loaded = PyInt(0), !.pc = "if_kegg"]

\* The KEGG load handed off without waiting for it: main goes on to the next
\* source while the call is still in progress.
step_if_kegg_no_wait(s) ==
    IF s.args.source \in {"kegg", "all"}
    THEN Call(s, "load_kegg_pathways",
              [organism |-> IF s.args.organism = "human" THEN "hsa" ELSE s.args.organism,
               limit |-> s.args.limit],
              "if_reactome")
    ELSE [s EXCEPT !.pc = "if_reactome"]

\* lines 201-206: if args.source in ['kegg', 'all']: count = loader.load_kegg_pathways(...)
step_if_kegg(s) ==
    IF s.args.source \in {"kegg", "all"}
    THEN Call(s, "load_kegg_pathways",
              [organism |-> IF s.args.organism = "human" THEN "hsa" ELSE s.args.organism,
               limit |-> s.args.limit],
              "in_kegg")
    ELSE [s EXCEPT !.pc = "if_reactome"]

step_ret_kegg(s, out) ==
    EndCall(s, "load_kegg_pathways", out,
            [s EXCEPT !.loader = out.self, !.count = out.result.value, !.pc = "add_kegg"])

\* The accumulation in a try/except that records the error and goes on.
step_add_kegg_caught(s) ==
    LET r == PyAdd(s.total_loaded, s.count)
    IN  IF r.k = "raise"
        THEN [s EXCEPT !.exception = r.exc, !.pc = "if_reactome"]
        ELSE [s EXCEPT !.total_loaded = r.value, !.pc = "if_reactome"]

\* The accumulation followed at once by the index update, the other sources
\* skipped.
step_add_kegg_then_index(s) ==
    LET r == PyAdd(s.total_loaded, s.count)
    IN  IF r.k = "raise"
        THEN Uncaught(s, r.exc)
        ELSE [s EXCEPT !.total_loaded = r.value, !.pc = "update_indexes"]

\* line 207: total_loaded += count
step_add_kegg(s) ==
    LET r == PyAdd(s.total_loaded, s.count)
    IN  IF r.k = "raise"
        THEN Uncaught(s, r.exc)
        ELSE [s EXCEPT !.total_loaded = r.value, !.pc = "if_reactome"]

\* lines 210-215
step_if_reactome(s) ==
    IF s.args.source \in {"reactome", "all"}
    THEN Call(s, "load_reactome_pathways",
              [species |-> IF s.args.organism = "human" THEN "Homo sapiens"
                           ELSE s.args.organism,
               limit |-> s.args.limit],
              "in_reactome")
    ELSE [s EXCEPT !.pc = "if_wiki"]

step_ret_reactome(s, out) ==
    EndCall(s, "load_reactome_pathways", out,
            [s EXCEPT !.loader = out.self, !.count = out.result.value,
                      !.pc = "add_reactome"])

\* line 216
step_add_reactome(s) ==
    LET r == PyAdd(s.total_loaded, s.count)
    IN  IF r.k = "raise"
        THEN Uncaught(s, r.exc)
        ELSE [s EXCEPT !.total_loaded = r.value, !.pc = "if_wiki"]

\* lines 219-224
step_if_wiki(s) ==
    IF s.args.source \in {"wiki", "all"}
    THEN Call(s, "load_wikipathways",
              [organism |-> IF s.args.organism = "human" THEN "Homo sapiens"
                            ELSE s.args.organism,
               limit |-> s.args.limit],
              "in_wiki")
    ELSE [s EXCEPT !.pc = "update_indexes"]

step_ret_wiki(s, out) ==
    EndCall(s, "load_wikipathways", out,
            [s EXCEPT !.loader = out.self, !.count = out.result.value, !.pc = "add_wiki"])

\* line 225
step_add_wiki(s) ==
    LET r == PyAdd(s.total_loaded, s.count)
    IN  IF r.k = "raise"
        THEN Uncaught(s, r.exc)
        ELSE [s EXCEPT !.total_loaded = r.value, !.pc = "update_indexes"]

\* line 230: loader.update_indexes()
step_call_update_indexes(s) == Call(s, "update_indexes", <<>>, "in_update_indexes")

step_ret_update_indexes(s, out) ==
    EndCall(s, "update_indexes", out,
            [s EXCEPT !.loader = out.self, !.pc = "validate_data"])

\* line 234: stats = loader.validate_data()
step_call_validate_data(s) == Call(s, "validate_data", <<>>, "in_validate_data")

step_ret_validate_data(s, out) ==
    EndCall(s, "validate_data", out,
            [s EXCEPT !.loader = out.self, !.stats = out.result.value, !.pc = "summary"])

\* lines 237-244: the summary ("Pathway Data Load Complete"); main returns.
step_summary(s) ==
    [s EXCEPT !.summary = [total_loaded |-> s.total_loaded, stats |-> s.stats],
              !.pc = "done"]

---------------------------------------------------------------------------
(* The actions: one per step of main. *)

\* The graph database a run starts with: pathway nodes already stored.
Pathways == {"hsa00010"}

Init ==
    \E a \in ArgvSet, e \in EnvironSet, d \in SUBSET Pathways :
        /\ argv = a
        /\ environ = e
        /\ pc = "parse_args"
        /\ args = Unbound
        /\ neo4j = Unbound
        /\ loader = Unbound
        /\ db = d
        /\ count = Unbound
        /\ total_loaded = Unbound
        /\ stats = Unbound
        /\ exception = NoException
        /\ trace = <<>>
        /\ summary = Unbound
        /\ sys_modules = (<<"__main__">> :> Bound(load_pathways_body))
        /\ frames = <<>>

ParseArgs == pc = "parse_args" /\ Become(step_parse_args(State))

GetEnv == pc = "getenv" /\ Become(step_getenv(State))

CallInit == pc = "PathwayLoader" /\ Become(step_call_init(State))

InitReturn ==
    /\ pc = "in_init"
    /\ Become(step_ret_init(State,
                PathwayLoader_init(NewInstance, db, InCall(State).neo4j_uri,
                                   InCall(State).neo4j_user,
                                   InCall(State).neo4j_password)))

TotalLoaded == pc = "total_loaded" /\ Become(step_total_loaded(State))

IfKegg == pc = "if_kegg" /\ Become(step_if_kegg(State))

KeggReturn ==
    /\ pc = "in_kegg"
    /\ Become(step_ret_kegg(State,
                load_kegg_pathways(loader, db, InCall(State).organism,
                                   InCall(State).limit)))

AddKegg == pc = "add_kegg" /\ Become(step_add_kegg(State))

IfReactome == pc = "if_reactome" /\ Become(step_if_reactome(State))

ReactomeReturn ==
    /\ pc = "in_reactome"
    /\ Become(step_ret_reactome(State,
                load_reactome_pathways(loader, db, InCall(State).species,
                                       InCall(State).limit)))

AddReactome == pc = "add_reactome" /\ Become(step_add_reactome(State))

IfWiki == pc = "if_wiki" /\ Become(step_if_wiki(State))

WikiReturn ==
    /\ pc = "in_wiki"
    /\ Become(step_ret_wiki(State,
                load_wikipathways(loader, db, InCall(State).organism,
                                  InCall(State).limit)))

AddWiki == pc = "add_wiki" /\ Become(step_add_wiki(State))

CallUpdateIndexes == pc = "update_indexes" /\ Become(step_call_update_indexes(State))

CallValidateData == pc = "validate_data" /\ Become(step_call_validate_data(State))

Summary == pc = "summary" /\ Become(step_summary(State))

\* main with PathwayLoader as written.  With the loaders returning None the
\* first `total_loaded += count` raises, so control never reaches line 228:
\* the steps after it are part of NextOpen only (Spec would never take them).
Next ==
    \/ ParseArgs
    \/ GetEnv
    \/ CallInit
    \/ InitReturn
    \/ TotalLoaded
    \/ IfKegg
    \/ KeggReturn
    \/ AddKegg
    \/ IfReactome
    \/ ReactomeReturn
    \/ AddReactome
    \/ IfWiki
    \/ WikiReturn
    \/ AddWiki

Spec == Init /\ [][Next]_vars

\* A run is over: main returned, or an exception left it.
Terminated == pc \in {"done", "raised"}

---------------------------------------------------------------------------
(* main as written, in one operator: the step main takes from s.  It is    *)
(* the steps above with each call ending as the method's body ends it.     *)

main_step(s) ==
    CASE s.pc = "parse_args" -> step_parse_args(s)
      [] s.pc = "getenv" -> step_getenv(s)
      [] s.pc = "PathwayLoader" -> step_call_init(s)
      [] s.pc = "in_init" ->
            step_ret_init(s, PathwayLoader_init(NewInstance, s.db, InCall(s).neo4j_uri,
                                                InCall(s).neo4j_user,
                                                InCall(s).neo4j_password))
      [] s.pc = "total_loaded" -> step_total_loaded(s)
      [] s.pc = "if_kegg" -> step_if_kegg(s)
      [] s.pc = "in_kegg" ->
            step_ret_kegg(s, load_kegg_pathways(s.loader, s.db, InCall(s).organism,
                                                InCall(s).limit))
      [] s.pc = "add_kegg" -> step_add_kegg(s)
      [] s.pc = "if_reactome" -> step_if_reactome(s)
      [] s.pc = "in_reactome" ->
            step_ret_reactome(s, load_reactome_pathways(s.loader, s.db, InCall(s).species,
                                                        InCall(s).limit))
      [] s.pc = "add_reactome" -> step_add_reactome(s)
      [] s.pc = "if_wiki" -> step_if_wiki(s)
      [] s.pc = "in_wiki" ->
            step_ret_wiki(s, load_wikipathways(s.loader, s.db, InCall(s).organism,
                                               InCall(s).limit))
      [] s.pc = "add_wiki" -> step_add_wiki(s)
      [] s.pc = "update_indexes" -> step_call_update_indexes(s)
      [] s.pc = "in_update_indexes" ->
            step_ret_update_indexes(s, update_indexes(s.loader, s.db))
      [] s.pc = "validate_data" -> step_call_validate_data(s)
      [] s.pc = "in_validate_data" ->
            step_ret_validate_data(s, validate_data(s.loader, s.db))
      [] s.pc = "summary" -> step_summary(s)
      [] OTHER -> s

\* No run of main takes more steps than this (19 positions, none revisited).
MainSteps == 19

RECURSIVE run(_, _)
run(s, n) == IF n = 0 \/ s.pc \in {"done", "raised"} THEN s ELSE run(main_step(s), n - 1)

\* The run of main, to its end, on command line a in environment e with
\* database d.
main(a, e, d) == run(Start(a, e, d), MainSteps)

---------------------------------------------------------------------------
(* SpecOpen: main against a PathwayLoader whose calls may end in any way.  *)

\* The ways a call of op may end: it returns what the body as written
\* returns (None), or what its signature announces, or it raises.
OpenResults(op) ==
    CASE op = "__init__" -> {Return(None), Raise("ConnectionError")}
      [] op \in {"load_kegg_pathways", "load_reactome_pathways", "load_wikipathways"} ->
            {Return(None), Raise("ConnectionError")}
                \cup {Return(PyInt(n)) : n \in 0..MaxLoaded}
      [] op = "update_indexes" -> {Return(None), Raise("ConnectionError")}
      [] op = "validate_data" -> {Return(None), Return(EmptyDict), Raise("ConnectionError")}

InitReturnOpen ==
    /\ pc = "in_init"
    /\ \E r \in OpenResults("__init__") :
          Become(step_ret_init(State, Effect(r, NewInstance, db)))

KeggReturnOpen ==
    /\ pc = "in_kegg"
    /\ \E r \in OpenResults("load_kegg_pathways") :
          Become(step_ret_kegg(State, Effect(r, loader, db)))

ReactomeReturnOpen ==
    /\ pc = "in_reactome"
    /\ \E r \in OpenResults("load_reactome_pathways") :
          Become(step_ret_reactome(State, Effect(r, loader, db)))

WikiReturnOpen ==
    /\ pc = "in_wiki"
    /\ \E r \in OpenResults("load_wikipathways") :
          Become(step_ret_wiki(State, Effect(r, loader, db)))

UpdateIndexesReturnOpen ==
    /\ pc = "in_update_indexes"
    /\ \E r \in OpenResults("update_indexes") :
          Become(step_ret_update_indexes(State, Effect(r, loader, db)))

ValidateDataReturnOpen ==
    /\ pc = "in_validate_data"
    /\ \E r \in OpenResults("validate_data") :
          Become(step_ret_validate_data(State, Effect(r, loader, db)))

NextOpen ==
    \/ ParseArgs
    \/ GetEnv
    \/ CallInit
    \/ InitReturnOpen
    \/ TotalLoaded
    \/ IfKegg
    \/ KeggReturnOpen
    \/ AddKegg
    \/ IfReactome
    \/ ReactomeReturnOpen
    \/ AddReactome
    \/ IfWiki
    \/ WikiReturnOpen
    \/ AddWiki
    \/ CallUpdateIndexes
    \/ UpdateIndexesReturnOpen
    \/ CallValidateData
    \/ ValidateDataReturnOpen
    \/ Summary

SpecOpen == Init /\ [][NextOpen]_vars

---------------------------------------------------------------------------
(* SpecClient: PathwayLoader as written, under a client that constructs    *)
(* loaders and calls their methods in any order with any arguments, one    *)
(* call after the other.                                                   *)

Credentials ==
    [neo4j_uri : {"bolt://localhost:7687", "bolt://db:7687"},
     neo4j_user : {"neo4j"},
     neo4j_password : {"password123"}]

Limits == {None} \cup {PyInt(n) : n \in 0..MaxLimit}

\* PathwayData values a client may pass.
PathwayDataSet ==
    {[pathway_id |-> "hsa00010", name |-> "Glycolysis", description |-> "",
      organism |-> "hsa", category |-> "metabolism", proteins |-> <<"P04406">>,
      metabolites |-> <<"C00031">>, regulations |-> <<>>],
     [pathway_id |-> "R-HSA-70171", name |-> "Glycolysis", description |-> "",
      organism |-> "Homo sapiens", category |-> "metabolism", proteins |-> <<>>,
      metabolites |-> <<>>, regulations |-> <<[source |-> "P04406", target |-> "P00558"]>>]}

ProteinLists == {<<>>, <<"P04406", "P00558">>}

InitClient ==
    \E d \in SUBSET Pathways :
        /\ argv = [opts |-> <<>>, flags |-> {}]
        /\ environ = <<>>
        /\ pc = "client"
        /\ args = Unbound
        /\ neo4j = Unbound
        /\ loader = Unbound
        /\ db = d
        /\ count = Unbound
        /\ total_loaded = Unbound
        /\ stats = Unbound
        /\ exception = NoException
        /\ trace = <<>>
        /\ summary = Unbound
        /\ sys_modules = (<<"__main__">> :> Bound(load_pathways_body))
        /\ frames = <<>>

\* The client calls op with kw and the call ends as `out` says.
ClientCall(op, kw, out) ==
    /\ Len(trace) < 2 * MaxCalls
    /\ trace' = trace \o <<CallEvent(op, kw),
                           IF out.result.k = "raise"
                           THEN RaiseEvent(op, out.result.exc)
                           ELSE ReturnEvent(op, out.result.value)>>
    /\ loader' = out.self
    /\ db' = out.db
    /\ UNCHANGED <<argv, environ, pc, args, neo4j, count, total_loaded, stats,
                   exception, summary, sys_modules, frames>>

ClientConstruct ==
    \E c \in Credentials :
        ClientCall("__init__", c,
                   PathwayLoader_init(NewInstance, db, c.neo4j_uri, c.neo4j_user,
                                      c.neo4j_password))

ClientLoadKegg ==
    /\ loader # Unbound
    /\ \E o \in {"hsa", "mmu"}, l \in Limits :
          ClientCall("load_kegg_pathways", [organism |-> o, limit |-> l],
                     load_kegg_pathways(loader, db, o, l))

ClientLoadReactome ==
    /\ loader # Unbound
    /\ \E sp \in {"Homo sapiens"}, l \in Limits :
          ClientCall("load_reactome_pathways", [species |-> sp, limit |-> l],
                     load_reactome_pathways(loader, db, sp, l))

ClientLoadWiki ==
    /\ loader # Unbound
    /\ \E o \in {"Homo sapiens"}, l \in Limits :
          ClientCall("load_wikipathways", [organism |-> o, limit |-> l],
                     load_wikipathways(loader, db, o, l))

ClientCreatePathwayNode ==
    /\ loader # Unbound
    /\ \E p \in PathwayDataSet :
          ClientCall("create_pathway_node", [pathway |-> p],
                     create_pathway_node(loader, db, p))

ClientCreateProteinNodes ==
    /\ loader # Unbound
    /\ \E ps \in ProteinLists :
          ClientCall("create_protein_nodes", [proteins |-> ps],
                     create_protein_nodes(loader, db, ps))

ClientCreateRelationships ==
    /\ loader # Unbound
    /\ \E p \in PathwayDataSet :
          ClientCall("create_relationships", [pathway |-> p],
                     create_relationships(loader, db, p))

ClientUpdateIndexes ==
    /\ loader # Unbound
    /\ ClientCall("update_indexes", <<>>, update_indexes(loader, db))

ClientValidateData ==
    /\ loader # Unbound
    /\ ClientCall("validate_data", <<>>, validate_data(loader, db))

NextClient ==
    \/ ClientConstruct
    \/ ClientLoadKegg
    \/ ClientLoadReactome
    \/ ClientLoadWiki
    \/ ClientCreatePathwayNode
    \/ ClientCreateProteinNodes
    \/ ClientCreateRelationships
    \/ ClientUpdateIndexes
    \/ ClientValidateData

SpecClient == InitClient /\ [][NextClient]_vars

---------------------------------------------------------------------------
(* What a run did, read from its trace. *)

LoaderOps == {"load_kegg_pathways", "load_reactome_pathways", "load_wikipathways"}

\* The positions of the trace at which op is called.
CallsOf(tr, op) == {i \in 1..Len(tr) : tr[i].kind = "call" /\ tr[i].op = op}

IsLoaderCall(ev) == ev.kind = "call" /\ ev.op \in LoaderOps

OpOf(ev) == ev.op

RECURSIVE MapOp(_)
MapOp(tr) == IF tr = <<>> THEN <<>> ELSE <<OpOf(Head(tr))>> \o MapOp(Tail(tr))

\* The loader methods a run has invoked, in the order of their calls.
LoadersInvoked(tr) == MapOp(SelectSeq(tr, IsLoaderCall))

\* The loaders --source stands for, in the documented order.
LoadersFor(source) ==
    CASE source = "kegg" -> <<"load_kegg_pathways">>
      [] source = "reactome" -> <<"load_reactome_pathways">>
      [] source = "wiki" -> <<"load_wikipathways">>
      [] source = "all" ->
            <<"load_kegg_pathways", "load_reactome_pathways", "load_wikipathways">>

\* The command line passed the parser.
Accepted == args # Unbound

\* The call at position i of the trace has returned, and what it returned.
HasReturned(tr, i) == i < Len(tr) /\ tr[i + 1].kind = "return"

\* A loader return that honours the limit it was called with: a count that
\* is not negative and, when a limit is given, not above it.
Honours(call, ret) ==
    /\ IsInt(ret.value)
    /\ ret.value.v >= 0
    /\ (call.kw.limit # None => ret.value.v <= call.kw.limit.v)

---------------------------------------------------------------------------
(* The claims. *)

\* C1: in one run of main the loaders invoked are the ones --source stands
\* for ('kegg', 'reactome', 'wiki': that one only; 'all', also the default:
\* all three in the order KEGG, Reactome, WikiPathways), each at most once:
\* while the run goes on they are the first of that list, and when it is over
\* they are the whole list.
C1_LoadersFollowSource ==
    Accepted =>
        LET want == LoadersFor(args.source)
            got == LoadersInvoked(trace)
        IN  /\ ("--source" \notin DOMAIN argv.opts => args.source = "all")
            /\ Len(got) <= Len(want)
            /\ got = SubSeq(want, 1, Len(got))
            /\ (Terminated => got = want)

\* C2: each loader returns the number of pathways it loaded: an integer that
\* is not negative and, when limit is given, not greater than limit.
C2_LoaderReturnsCount ==
    \A i \in 1..Len(trace) :
        (IsLoaderCall(trace[i]) /\ HasReturned(trace, i)) =>
            Honours(trace[i], trace[i + 1])

\* C3: a run of main on an accepted command line ends with the summary
\* ("Pathway Data Load Complete"), having called update_indexes once and
\* validate_data once.
C3_RunReachesSummary ==
    (Accepted /\ Terminated) =>
        /\ pc = "done"
        /\ summary # Unbound
        /\ Cardinality(CallsOf(trace, "update_indexes")) = 1
        /\ Cardinality(CallsOf(trace, "validate_data")) = 1

C5_IndexThenValidateAfterLoaders ==
    Accepted =>
        \A i \in 1..Len(trace) :
            trace[i].kind = "call" =>
                /\ trace[i].op = "update_indexes" =>
                      /\ LoadersInvoked(SubSeq(trace, 1, i - 1)) = LoadersFor(args.source)
                      /\ \A j \in 1..(i - 1) :
                            IsLoaderCall(trace[j]) => trace[j + 1].kind = "return"
                /\ trace[i].op = "validate_data" =>
                      \E j \in 1..(i - 1) :
                          trace[j].kind = "return" /\ trace[j].op = "update_indexes"
                /\ trace[i].op \in {"update_indexes", "validate_data"} =>
                      \A j \in (i + 1)..Len(trace) : ~IsLoaderCall(trace[j])

\* A run over all three sources that reached the summary.
C5_Witness ==
    /\ pc = "done"
    /\ args.source = "all"
    /\ CallsOf(trace, "update_indexes") # {}
    /\ CallsOf(trace, "validate_data") # {}

IsCall(ev) == ev.kind = "call"

\* The command line a with --update given if it was not, and not if it was.
FlipUpdate(a) ==
    [a EXCEPT !.flags = IF "--update" \in @ THEN @ \ {"--update"} ELSE @ \cup {"--update"}]

\* C6: --update is False unless given, and it reaches the loader: the calls
\* of a finished run (methods and arguments) differ from the calls of the
\* run on the same command line with --update flipped, in the same
\* environment.
C6_UpdateReachesLoader ==
    Accepted =>
        /\ args.update = ("--update" \in argv.flags)
        /\ Terminated =>
              SelectSeq(trace, IsCall)
                  # SelectSeq(main(FlipUpdate(argv), environ, db).trace, IsCall)

\* C7: a --source outside the choices is rejected by the parser, before the
\* loader is constructed and before any call on it.
C7_BadSourceRejected ==
    ("--source" \in DOMAIN argv.opts /\ argv.opts["--source"] \notin source_choices) =>
        /\ pc \in {"parse_args", "raised"}
        /\ pc = "raised" => exception = "SystemExit"
        /\ loader = Unbound
        /\ trace = <<>>

\* The parser has rejected --source biocyc.
C7_Witness ==
    /\ "--source" \in DOMAIN argv.opts
    /\ argv.opts["--source"] = "biocyc"
    /\ pc = "raised"
    /\ exception = "SystemExit"

C9_NoHandlerNoRetry ==
    [][/\ exception = NoException
       /\ pc # "raised"
       /\ (pc \in {"add_kegg", "add_reactome", "add_wiki"} /\ ~IsInt(count)) =>
              (exception' = "TypeError" /\ trace' = trace)
       /\ (trace' # trace /\ trace'[Len(trace')].kind = "raise") =>
              exception' = trace'[Len(trace')].exc
       /\ exception' # NoException =>
              /\ pc' = "raised"
              /\ summary' = Unbound
              /\ SelectSeq(trace', IsCall) = SelectSeq(trace, IsCall)]_vars

\* A run ended by the TypeError of `total_loaded += count`.
C9_Witness ==
    /\ pc = "raised"
    /\ exception = "TypeError"
    /\ Len(LoadersInvoked(trace)) = 1

\* C10: a run that passes the parser constructs PathwayLoader once, as its
\* first call, with each credential taken from its own environment variable
\* when that is set and its own default otherwise, whatever the command line.
C10_LoaderBuiltOnceFromEnv ==
    LET inits == CallsOf(trace, "__init__")
        want == [neo4j_uri |-> IF "NEO4J_URI" \in DOMAIN environ
                               THEN environ["NEO4J_URI"] ELSE "bolt://localhost:7687",
                 neo4j_user |-> IF "NEO4J_USER" \in DOMAIN environ
                                THEN environ["NEO4J_USER"] ELSE "neo4j",
                 neo4j_password |-> IF "NEO4J_PASSWORD" \in DOMAIN environ
                                    THEN environ["NEO4J_PASSWORD"] ELSE "password123"]
    IN  /\ inits \subseteq {1}
        /\ \A i \in inits : trace[i].kw = want
        /\ (Accepted /\ pc \notin {"getenv", "PathwayLoader"}) => inits = {1}
        /\ ~Accepted => inits = {}

\* A run with only NEO4J_USER set and a --limit given, after its first loader.
C10_Witness ==
    /\ DOMAIN environ = {"NEO4J_USER"}
    /\ "--limit" \in DOMAIN argv.opts
    /\ "--source" \in DOMAIN argv.opts
    /\ Len(LoadersInvoked(trace)) = 1
    /\ trace[1].kw.neo4j_user = "admin"

\* The operator main and the actions of Spec tell the same run.
MainIsTheRun == Terminated => State = main(argv, environ, db)

---------------------------------------------------------------------------
(* The claims about main with PathwayLoader as it is written. *)

\* The positions of main after the three loader blocks (lines 228-244).
AfterLoaders ==
    {"update_indexes", "in_update_indexes", "validate_data", "in_validate_data",
     "summary", "done"}

InProgress(tr) ==
    {i \in 1..Len(tr) :
        /\ tr[i].kind = "call"
        /\ ~(i < Len(tr) /\ tr[i + 1].kind \in {"return", "raise"} /\ tr[i + 1].op = tr[i].op)}

\* C17: a run of main is sequential: at most one call on PathwayLoader is in
\* progress at any time, and it is the last event of the trace (every call
\* ends, by its return or its exception, before the next call starts).
C17_OneCallAtATime ==
    /\ Cardinality(InProgress(trace)) <= 1
    /\ InProgress(trace) \subseteq {Len(trace)}
    /\ \A i \in 1..Len(trace) :
          trace[i].kind \in {"return", "raise"} =>
              (i > 1 /\ trace[i - 1].kind = "call" /\ trace[i - 1].op = trace[i].op)
    /\ InProgress(trace) # {} <=> pc \in {"in_init", "in_kegg", "in_reactome", "in_wiki",
                                          "in_update_indexes", "in_validate_data"}

\* The third loader of a run over all sources is in progress, the first two
\* have returned.
C17_Witness ==
    /\ pc = "in_wiki"
    /\ Len(LoadersInvoked(trace)) = 3
    /\ InProgress(trace) = {Len(trace)}

---------------------------------------------------------------------------
(* SpecImport: an importer (a script, a test, an interpreter session) that *)
(* executes import statements on the modules of the repository.            *)

Importer == <<"__main__">>

ExecFrame(m) == [kind |-> "exec", module |-> m, ip |-> 1]
ImportFrame(importer, stmt) ==
    [kind |-> "import", importer |-> importer, todo |-> Prefixes(stmt.module),
     stmt |-> stmt]

Top(stack) == stack[Len(stack)]
Pop(stack) == SubSeq(stack, 1, Len(stack) - 1)
ReplaceTop(stack, f) == [stack EXCEPT ![Len(stack)] = f]

\* After the import on top of the stack has finished, the stack without it:
\* the module body that held the statement goes on with its next statement.
Resume(stack) ==
    LET rest == Pop(stack)
    IN  IF rest # <<>> /\ Top(rest).kind = "exec"
        THEN ReplaceTop(rest, [Top(rest) EXCEPT !.ip = @ + 1])
        ELSE rest

\* The import statements the importer may execute: the package and modules
\* of the repository, and the names their docstrings document.
ImporterStatements ==
    {ImportStmt(<<"mcp_server">>),
     ImportStmt(<<"mcp_server", "server">>),
     ImportStmt(<<"mcp_server", "handlers">>),
     ImportStmt(<<"handlers">>),
     ImportStmt(<<"mcp_server", "tools", "memory_tool">>),
     ImportStmt(<<"graph", "neo4j_client">>),
     ImportStmt(<<"memory", "memory_manager">>),
     ImportStmt(<<"scripts", "load_pathways">>),
     FromImport(<<"mcp_server">>, "MCPServer"),
     FromImport(<<"mcp_server">>, "DietHandler"),
     FromImport(<<"mcp_server", "tools">>, "memory_tool"),
     FromImport(<<"graph">>, "neo4j_client"),
     FromImport(<<"memory">>, "memory_manager"),
     FromImport(<<"mcp_server", "tools", "memory_tool">>, "MemoryTool"),
     FromImport(<<"graph", "neo4j_client">>, "Neo4jClient"),
     FromImport(<<"memory", "memory_manager">>, "MemoryManager"),
     FromImport(<<"agents", "moa_predictor">>, "MoAPredictor"),
     FromImport(<<"scripts", "load_pathways">>, "PathwayLoader")}

ImportsStarted == Cardinality({i \in 1..Len(trace) : trace[i].kind = "import"})

InitImport ==
    /\ argv = [opts |-> <<>>, flags |-> {}]
    /\ environ = <<>>
    /\ pc = "importer"
    /\ args = Unbound
    /\ neo4j = Unbound
    /\ loader = Unbound
    /\ db = {}
    /\ count = Unbound
    /\ total_loaded = Unbound
    /\ stats = Unbound
    /\ exception = NoException
    /\ trace = <<>>
    /\ summary = Unbound
    /\ sys_modules = (Importer :> <<>>)
    /\ frames = <<>>

ImportFrameVars == <<argv, environ, pc, args, neo4j, loader, db, count, total_loaded,
                     stats, summary>>

\* The importer executes an import statement (an earlier exception was
\* caught or reported: the session goes on).
ImporterImport ==
    /\ frames = <<>>
    /\ IF trace = <<>> THEN TRUE ELSE trace[Len(trace)].kind = "outcome"
    /\ ImportsStarted < MaxImports
    /\ \E stmt \in ImporterStatements :
          /\ frames' = <<ImportFrame(Importer, stmt)>>
          /\ trace' = Append(trace, [kind |-> "import", stmt |-> stmt])
    /\ exception' = NoException
    /\ UNCHANGED <<sys_modules, ImportFrameVars>>

\* The next module an import needs: already in sys.modules, or not found, or
\* found: it is entered in sys.modules and its body starts.
FindModule ==
    /\ exception = NoException
    /\ frames # <<>>
    /\ Top(frames).kind = "import"
    /\ Top(frames).todo # <<>>
    /\ LET f == Top(frames)
           m == Head(f.todo)
       IN  IF m \in DOMAIN sys_modules
           THEN /\ frames' = ReplaceTop(frames, [f EXCEPT !.todo = Tail(@)])
                /\ UNCHANGED <<sys_modules, exception>>
           ELSE IF m \notin DOMAIN Files
           THEN /\ exception' = "ModuleNotFoundError"
                /\ UNCHANGED <<sys_modules, frames>>
           ELSE /\ sys_modules' = (m :> <<>>) @@ sys_modules
                /\ frames' = Append(frames, ExecFrame(m))
                /\ UNCHANGED exception
    /\ UNCHANGED <<trace, ImportFrameVars>>

\* The next statement of the module body on top of the stack.
ExecStatement ==
    /\ exception = NoException
    /\ frames # <<>>
    /\ Top(frames).kind = "exec"
    /\ Top(frames).ip <= Len(Files[Top(frames).module].body)
    /\ LET f == Top(frames)
           stmt == Files[f.module].body[f.ip]
       IN  IF stmt.op = "assign"
           THEN /\ sys_modules' = [sys_modules EXCEPT
                                     ![f.module] = Bind(@, stmt.name, stmt.value)]
                /\ frames' = ReplaceTop(frames, [f EXCEPT !.ip = @ + 1])
           ELSE /\ frames' = Append(frames, ImportFrame(f.module, stmt))
                /\ UNCHANGED sys_modules
    /\ UNCHANGED <<exception, trace, ImportFrameVars>>

\* The module body on top of the stack has ended: the module is imported,
\* and bound in its parent package under its own name.
ExecReturn ==
    /\ exception = NoException
    /\ frames # <<>>
    /\ Top(frames).kind = "exec"
    /\ Top(frames).ip > Len(Files[Top(frames).module].body)
    /\ LET m == Top(frames).module
           rest == Pop(frames)
       IN  /\ frames' = ReplaceTop(rest, [Top(rest) EXCEPT !.todo = Tail(@)])
           /\ sys_modules' =
                 IF Len(m) > 1
                 THEN [sys_modules EXCEPT
                         ![Parent(m)] = Bind(@, m[Len(m)], ModuleObject(m))]
                 ELSE sys_modules
    /\ UNCHANGED <<exception, trace, ImportFrameVars>>

\* Every module of the import on top of the stack is imported: the statement
\* binds its name in the importing module.  `from m import n` takes n from
\* m's namespace; when it is not there and m.n is a module of the package m,
\* that module is imported; otherwise ImportError.
BindImported ==
    /\ exception = NoException
    /\ frames # <<>>
    /\ Top(frames).kind = "import"
    /\ Top(frames).todo = <<>>
    /\ LET f == Top(frames)
           stmt == f.stmt
           ns == sys_modules[stmt.module]
       IN  IF stmt.op = "import"
           THEN /\ sys_modules' = [sys_modules EXCEPT
                       ![f.importer] = Bind(@, stmt.module[1],
                                            ModuleObject(<<stmt.module[1]>>))]
                /\ frames' = Resume(frames)
                /\ UNCHANGED exception
           ELSE IF stmt.name \in DOMAIN ns
           THEN /\ sys_modules' = [sys_modules EXCEPT
                       ![f.importer] = Bind(@, stmt.name, ns[stmt.name])]
                /\ frames' = Resume(frames)
                /\ UNCHANGED exception
           ELSE IF /\ Files[stmt.module].kind # "module"
                   /\ Append(stmt.module, stmt.name) \in DOMAIN Files
           THEN /\ frames' = ReplaceTop(frames,
                                 [f EXCEPT !.todo = <<Append(stmt.module, stmt.name)>>])
                /\ UNCHANGED <<sys_modules, exception>>
           ELSE /\ exception' = "ImportError"
                /\ UNCHANGED <<sys_modules, frames>>
    /\ UNCHANGED <<trace, ImportFrameVars>>

\* An exception leaves the frame on top of the stack (nothing in the
\* repository catches it); a module whose body it leaves is taken out of
\* sys.modules again.
Unwind ==
    /\ exception # NoException
    /\ frames # <<>>
    /\ frames' = Pop(frames)
    /\ sys_modules' =
          IF Top(frames).kind = "exec"
          THEN [m \in DOMAIN sys_modules \ {Top(frames).module} |-> sys_modules[m]]
          ELSE sys_modules
    /\ UNCHANGED <<exception, trace, ImportFrameVars>>

\* The import statement of the importer is over: it succeeded or raised.
ImporterResumes ==
    /\ frames = <<>>
    /\ trace # <<>>
    /\ trace[Len(trace)].kind = "import"
    /\ trace' = Append(trace, [kind |-> "outcome", stmt |-> trace[Len(trace)].stmt,
                               exc |-> exception])
    /\ UNCHANGED <<exception, sys_modules, frames, ImportFrameVars>>

NextImport ==
    \/ ImporterImport
    \/ FindModule
    \/ ExecStatement
    \/ ExecReturn
    \/ BindImported
    \/ Unwind
    \/ ImporterResumes

SpecImport == InitImport /\ [][NextImport]_vars

\* The statement `import mcp_server` has just ended.
ImportedMcpServer ==
    /\ trace # <<>>
    /\ trace[Len(trace)].kind = "outcome"
    /\ trace[Len(trace)].stmt = ImportStmt(<<"mcp_server">>)

\* C11: importing the mcp_server package succeeds and binds every name of its
\* __all__ (MCPServer, from mcp_server.server, and DietHandler, from
\* mcp_server.handlers), with __version__ equal to "1.0.0".
C11_PackageImports ==
    ImportedMcpServer =>
        /\ trace[Len(trace)].exc = NoException
        /\ <<"mcp_server">> \in DOMAIN sys_modules
        /\ LET ns == sys_modules[<<"mcp_server">>]
           IN  /\ {"MCPServer", "DietHandler", "__version__", "__all__"} \subseteq DOMAIN ns
               /\ ns["__version__"] = PyStr("1.0.0")
               /\ \A i \in 1..Len(ns["__all__"].items) :
                     ns["__all__"].items[i] \in DOMAIN ns

\* The classes the module docstrings document (Neo4jClient, MemoryManager,
\* MemoryTool, MoAPredictor, MCPServer, DietHandler) are defined nowhere:
\* a module that is only a docstring binds no name, and importing one of
\* these classes from its module raises ImportError.
DocumentedClasses ==
    {"MCPServer", "DietHandler", "MemoryTool", "Neo4jClient", "MemoryManager",
     "MoAPredictor"}

DocumentedClassesAreUndefined ==
    /\ \A m \in DOMAIN sys_modules \cap DOMAIN Files :
          Files[m].kind = "module" /\ Files[m].body = DocstringOnly
              => sys_modules[m] = <<>>
    /\ \A i \in 1..Len(trace) :
          /\ trace[i].kind = "outcome"
          /\ trace[i].stmt.op = "from"
          /\ trace[i].stmt.name \in DocumentedClasses
          => trace[i].exc = "ImportError"

=============================================================================
